---- MODULE Spec2Model ----
(***************************************************************************)
(* A model of sshpf (src/sshpf.go): an ssh server that only forwards       *)
(* direct-tcpip channels to an optionally limited set of addresses.        *)
(*                                                                         *)
(* Strings and byte slices are sequences of byte values (0..255), so that  *)
(* slicing, joining and comparing are what the Go code does on them.       *)
(***************************************************************************)
EXTENDS Integers, Sequences, FiniteSets, TLC

(***************************************************************************)
(* Bounds of the model.                                                    *)
(***************************************************************************)
\* longest destination host string put in a channel-open payload
MaxHostLen == 2
\* most originator bytes that follow the port field of a payload
MaxTailLen == 1
\* most entries of the authorized-keys file
MaxKeys == 2
\* most channel-open events of one connection
MaxChannels == 2
\* most channel-open events of one connection on which requests are sent
MaxRequestChannels == 1
\* most channel requests sent on one connection
MaxRequests == 2
\* most channel-open events of one connection in the runs over every allow-list
MaxDialChannels == 1
\* most channel-open events of one connection in the runs followed to their end
MaxTaskChannels == 1
\* most entries of the allow-list in those runs
MaxAllowed == 2
\* most connections the listener accepts
MaxConns == 2

(***************************************************************************)
(* Pure helpers of the Go runtime used by the code.                        *)
(***************************************************************************)
\* all sequences over S of length at most n
RECURSIVE SeqsUpTo(_, _)
SeqsUpTo(S, n) ==
  IF n = 0 THEN {<<>>}
  ELSE LET shorter == SeqsUpTo(S, n - 1)
       IN  shorter \cup {Append(s, x) : s \in {t \in shorter : Len(t) = n - 1}, x \in S}

\* b[lo:hi] of Go (0-based, hi excluded)
Slice(b, lo, hi) == SubSeq(b, lo + 1, hi)

\* b[i] of Go (0-based)
At(b, i) == b[i + 1]

\* strconv.Itoa for a non-negative int: its decimal digits in ASCII
RECURSIVE Itoa(_)
Itoa(n) ==
  IF n < 10 THEN <<48 + n>>
  ELSE Append(Itoa(n \div 10), 48 + (n % 10))

\* net.JoinHostPort: host ":" port, the host in brackets when it holds a colon
JoinHostPort(host, port) ==
  IF \E i \in 1..Len(host) : host[i] = 58
  THEN <<91>> \o host \o <<93, 58>> \o port
  ELSE host \o <<58>> \o port

(***************************************************************************)
(* decodeHostPortPayload (src/sshpf.go:181-195).                           *)
(***************************************************************************)
DecodeError == [err |-> TRUE, host |-> <<>>, port |-> 0]

\* a decoder reading the port from the first two bytes of its four-byte field
decodeHighPortBytes(b) ==
  IF Len(b) < 4 THEN DecodeError
  ELSE LET slen == At(b, 3)
       IN  IF Len(b) < 4 + slen + 2 + 2 THEN DecodeError
           ELSE [err  |-> FALSE,
                 host |-> Slice(b, 4, 4 + slen),
                 port |-> (At(b, 4 + slen) * 256) + At(b, 4 + slen + 1)]

decodeHostPortPayload(b) ==
  IF Len(b) < 4 THEN DecodeError
  ELSE LET slen == At(b, 3)
       IN  IF Len(b) < 4 + slen + 2 + 2 THEN DecodeError
           ELSE [err  |-> FALSE,
                 host |-> Slice(b, 4, 4 + slen),
                 \* uint32 arithmetic: two bytes give at most 65535, no wrap-around
                 port |-> (At(b, 4 + slen + 2) * 256) + At(b, 4 + slen + 2 + 1)]

(***************************************************************************)
(* The key check returned by authChecker (src/sshpf.go:170-178): the loop  *)
(* over pkeys, bytes.Equal being equality of the two byte sequences.       *)
(***************************************************************************)
RECURSIVE matchFrom(_, _, _)
matchFrom(keys, keyBytes, i) ==
  IF i > Len(keys) THEN FALSE
  ELSE IF keyBytes = keys[i] THEN TRUE
  ELSE matchFrom(keys, keyBytes, i + 1)

\* a key check that compares with the first loaded key only
firstKeyOnly(keys, keyBytes) == Len(keys) > 0 /\ keyBytes = keys[1]

\* TRUE: "return nil, nil" (accepted, no permissions); FALSE: "no keys matched"
PublicKeyCallback(keys, keyBytes) == matchFrom(keys, keyBytes, 1)

(***************************************************************************)
(* The destination check of handleDial (src/sshpf.go:104-111): TRUE when   *)
(* control reaches the dial label, FALSE when the open is rejected.        *)
(***************************************************************************)
RECURSIVE destFrom(_, _, _)
destFrom(allowed, addr, i) ==
  IF i > Len(allowed) THEN FALSE
  ELSE IF addr = allowed[i] THEN TRUE
  ELSE destFrom(allowed, addr, i + 1)

\* a destination check that accepts an address an entry is a prefix of
reachesDialByPrefix(allowed, addr) ==
  \/ Len(allowed) = 0
  \/ \E i \in 1..Len(allowed) :
       Len(allowed[i]) <= Len(addr) /\ SubSeq(addr, 1, Len(allowed[i])) = allowed[i]

reachesDial(allowed, addr) ==
  IF Len(allowed) > 0 THEN destFrom(allowed, addr, 1) ELSE TRUE

(***************************************************************************)
(* Inputs: what clients and files can hand to the program.                 *)
(***************************************************************************)
\* a uint32 on the wire (RFC 4254): four bytes, most significant first
U32BE(n) == <<(n \div 16777216) % 256, (n \div 65536) % 256, (n \div 256) % 256, n % 256>>

\* the extra data of a direct-tcpip open: host length, host, port, originator fields
DirectTcpipPayload(h, p, tail) == U32BE(Len(h)) \o h \o U32BE(p) \o tail

\* the first n bytes of b
Prefix(b, n) == SubSeq(b, 1, n)

\* bytes of the host strings and originator fields fed to the decoder
HostBytes == {0, 97, 255}
TailBytes == {7}
\* destination ports fed to the decoder
Ports == {0, 80, 255, 256, 443, 65535}

\* payloads as a client builds them, whole or cut short, and payloads whose
\* declared host length is larger than one byte holds
DecoderInputs ==
  UNION { UNION { { Prefix(U32BE(l) \o h \o U32BE(p) \o tail, n) :
                      n \in 0..(8 + Len(h) + Len(tail)) } :
                  l \in {Len(h), Len(h) + 256}, p \in Ports,
                  tail \in SeqsUpTo(TailBytes, MaxTailLen) } :
          h \in SeqsUpTo(HostBytes, MaxHostLen) }

\* marshaled public keys: two differ in one bit, one is a prefix of another
KeyBytes == {2, 3}
Keys == SeqsUpTo(KeyBytes, 2) \ {<<>>}
KeyFiles == SeqsUpTo(Keys, MaxKeys)

VARIABLES
  payload,              \* decoder run: the bytes handed to decodeHostPortPayload
  decoded,              \* decoder run: <<>> or <<its result>>
  pkeys,                \* the marshaled keys authChecker loaded
  presented,            \* key check run: <<>> or <<the key a client presented>>
  authResult,           \* key check run: <<>> or <<what the callback returned>>
  allowedDestinations,  \* the allow-list handed to handleConn
  nConn,                \* the raw connection: "open", "dropped" (peer gone), "closed"
  connPc,               \* where handleConn is
  chans,                \* channel-open events not yet received by handleConn
  channels,             \* every channel-open event of the connection, by arrival
  args,                 \* the runArgs handed to run, each file as the loaders find it
  runPc,                \* where run is
  runErr,               \* "nil", or the call whose error ended the process
  ln,                   \* the listener: "nil", "open", "closed"
  conns                 \* the connections run accepted, by arrival

decoderVars == <<payload, decoded>>
authVars == <<presented, authResult>>
connVars == <<allowedDestinations, nConn, connPc, chans, channels>>
runVars == <<args, runPc, runErr, ln, conns>>
vars == <<payload, decoded, pkeys, presented, authResult, allowedDestinations,
          nConn, connPc, chans, channels, args, runPc, runErr, ln, conns>>

\* a file as a loader finds it: whether os.Open succeeds, the lines the
\* scanner yields, and whether the scanner ends on a read error
File(opens, lines, scanErr) == [opens |-> opens, lines |-> lines, scanErr |-> scanErr]

\* the arguments under which run loads the keys and the allow-list given
ArgsOf(keys, allowed) ==
  [AuthKeysFile |-> File(TRUE, keys, FALSE),
   HostKeyFile |-> "key",
   Destinations |-> IF allowed = <<>> THEN <<>> ELSE <<File(TRUE, allowed, FALSE)>>]

\* run is in its accept loop: the state of its variables in the runs of one
\* connection and of one function
Listening ==
  /\ args = ArgsOf(pkeys, allowedDestinations)
  /\ runPc = "accept"
  /\ runErr = "nil"
  /\ ln = "open"
  /\ conns = <<>>

\* no connection: the state of the connection variables in the runs of one function
ConnIdle ==
  /\ allowedDestinations = <<>>
  /\ nConn = "closed"
  /\ connPc = "done"
  /\ chans = <<>>
  /\ channels = <<>>

(***************************************************************************)
(* Runs of decodeHostPortPayload on every input.                           *)
(***************************************************************************)
InitDecode ==
  /\ payload \in DecoderInputs
  /\ decoded = <<>>
  /\ pkeys = <<>>
  /\ presented = <<>>
  /\ authResult = <<>>
  /\ ConnIdle
  /\ Listening

Decode ==
  /\ decoded = <<>>
  /\ decoded' = <<decodeHostPortPayload(payload)>>
  /\ UNCHANGED <<payload, pkeys, authVars, connVars, runVars>>

NextDecode == Decode

SpecDecode == InitDecode /\ [][NextDecode]_vars

(***************************************************************************)
(* Runs of the key check on every loaded key set and presented key.        *)
(***************************************************************************)
InitAuth ==
  /\ pkeys \in KeyFiles
  /\ presented = <<>>
  /\ authResult = <<>>
  /\ payload = <<>>
  /\ decoded = <<>>
  /\ ConnIdle
  /\ Listening

Authenticate(key) ==
  /\ presented = <<>>
  /\ presented' = <<key>>
  /\ authResult' = <<PublicKeyCallback(pkeys, key)>>
  /\ UNCHANGED <<pkeys, decoderVars, connVars, runVars>>

NextAuth == \E key \in Keys : Authenticate(key)

SpecAuth == InitAuth /\ [][NextAuth]_vars

(***************************************************************************)
(* One connection: handleConn, and handleSession / handleDial per channel. *)
(***************************************************************************)
\* "a:80", "A:80", "a:8" as the allow-list file spells them
a80 == <<97, 58, 56, 48>>
A80 == <<65, 58, 56, 48>>
a8 == <<97, 58, 56>>

\* allow-lists loadDestinations can return
AllowLists == {<<>>, <<a8, A80>>, <<A80, a80>>}

\* extra data of the direct-tcpip opens clients send: to a:80, whole and cut short
ForwardPayloads ==
  { DirectTcpipPayload(<<97>>, 80, <<>>),
    Prefix(DirectTcpipPayload(<<97>>, 80, <<>>), 7) }

\* channel types clients ask for
ChannelTypes == {"session", "direct-tcpip", "x11"}

\* the channel-open events clients send
Opens ==
  { [ChannelType |-> "direct-tcpip", ExtraData |-> d] : d \in ForwardPayloads }
    \cup { [ChannelType |-> t, ExtraData |-> <<>>] : t \in ChannelTypes \ {"direct-tcpip"} }

\* channel request types clients send
RequestTypes == {"shell", "pty-req"}

\* a channel-open event as it arrives
\*   decision     the calls made on the ssh.NewChannel: "Accepted", "AcceptFailed",
\*                or the reason of a Reject
\*   handler      the function handleConn started for it
\*   pc           where that function is
\*   addr         <<>> or <<the address handleDial formed>>
\*   dialed       the addresses net.DialTimeout was called with
\*   rconn        "nil", "open", "closed": the destination socket
\*   peer         "none", "live", "gone": the destination's end of rconn
\*   channel      "nil", "open", "closed": the accepted ssh.Channel
\*   clientClosed the client closed its end of the channel
\*   copyTask     "none", "running", "done": go io.Copy(channel, rconn)
\*   reqTask      "none", "running", "done": the goroutine ranging over requests
\*   requests     request types received and not yet taken by reqTask
\*   replies      the Reply calls made: [type, ok]
NewChannel(open) ==
  [ChannelType |-> open.ChannelType, ExtraData |-> open.ExtraData,
   decision |-> <<>>, handler |-> "none", pc |-> "queued",
   addr |-> <<>>, dialed |-> <<>>, rconn |-> "nil", peer |-> "none",
   channel |-> "nil", clientClosed |-> FALSE,
   copyTask |-> "none", reqTask |-> "none", requests |-> <<>>, replies |-> <<>>]

Ids == 1..Len(channels)

RECURSIVE SumTo(_, _)
SumTo(f, n) == IF n = 0 THEN 0 ELSE f[n] + SumTo(f, n - 1)

\* channel requests sent so far on the connection
RequestsSent ==
  SumTo([c \in Ids |-> Len(channels[c].requests) + Len(channels[c].replies)], Len(channels))

Init ==
  /\ payload = <<>>
  /\ decoded = <<>>
  /\ pkeys = << <<2, 3>> >>
  /\ presented = <<>>
  /\ authResult = <<>>
  /\ allowedDestinations \in AllowLists
  /\ nConn = "open"
  /\ connPc = "handshake"
  /\ chans = <<>>
  /\ channels = <<>>
  /\ Listening

Set(c, ch) == channels' = [channels EXCEPT ![c] = ch]

\* newChannel.Reject(reason, ...)
Reject(ch, reason) == [ch EXCEPT !.decision = Append(@, reason)]

---------------------------------------------------------------------------
\* the environment

\* the client, or the network, ends the raw connection
ConnDrop ==
  /\ nConn = "open"
  /\ nConn' = "dropped"
  /\ UNCHANGED <<runVars, decoderVars, pkeys, authVars, allowedDestinations, connPc, chans, channels>>

\* the client opens a channel
ClientOpen(open, most) ==
  /\ connPc = "range"
  /\ nConn = "open"
  /\ Len(channels) < most
  /\ channels' = Append(channels, NewChannel(open))
  /\ chans' = Append(chans, Len(channels) + 1)
  /\ UNCHANGED <<runVars, decoderVars, pkeys, authVars, allowedDestinations, nConn, connPc>>

\* some function or goroutine of the channel is still running
Running(ch) ==
  \/ ch.pc \notin {"queued", "done"}
  \/ ch.copyTask = "running"
  \/ ch.reqTask = "running"

\* the client closes an accepted channel (while the server can still notice)
ClientClose(c) ==
  /\ nConn = "open"
  /\ channels[c].channel # "nil"
  /\ ~channels[c].clientClosed
  /\ Running(channels[c])
  /\ Set(c, [channels[c] EXCEPT !.clientClosed = TRUE])
  /\ UNCHANGED <<runVars, decoderVars, pkeys, authVars, allowedDestinations, nConn, connPc, chans>>

\* the client sends a channel request on an accepted channel
ClientRequest(c, type) ==
  /\ nConn = "open"
  /\ channels[c].reqTask = "running"
  /\ ~channels[c].clientClosed
  /\ RequestsSent < MaxRequests
  /\ Set(c, [channels[c] EXCEPT !.requests = Append(@, type)])
  /\ UNCHANGED <<runVars, decoderVars, pkeys, authVars, allowedDestinations, nConn, connPc, chans>>

\* the destination closes its end of the socket, or the socket breaks
DestGone(c) ==
  /\ channels[c].rconn = "open"
  /\ channels[c].peer = "live"
  /\ Set(c, [channels[c] EXCEPT !.peer = "gone"])
  /\ UNCHANGED <<runVars, decoderVars, pkeys, authVars, allowedDestinations, nConn, connPc, chans>>

---------------------------------------------------------------------------
\* handleConn

\* ssh.NewServerConn: the handshake, with the key the client presents
NewServerConn(key) ==
  /\ connPc = "handshake"
  /\ IF nConn = "open" /\ PublicKeyCallback(pkeys, key)
     THEN /\ connPc' = "range"
          /\ UNCHANGED nConn
     ELSE \* return err, the deferred nConn.Close()
          /\ connPc' = "done"
          /\ nConn' = "closed"
  /\ UNCHANGED <<runVars, decoderVars, pkeys, authVars, allowedDestinations, chans, channels>>

\* a default case that rejects and returns from handleConn
rejectUnknownAndReturn(c) ==
  /\ Set(c, [Reject(channels[c], "UnknownChannelType") EXCEPT !.pc = "done"])
  /\ connPc' = "done"
  /\ nConn' = "closed"

\* default: newChannel.Reject(ssh.UnknownChannelType, ...); continue
rejectUnknown(c) ==
  /\ Set(c, [Reject(channels[c], "UnknownChannelType") EXCEPT !.pc = "done"])
  /\ UNCHANGED <<connPc, nConn>>

\* a loop that calls the handler itself instead of starting a goroutine, and
\* so takes the next event only when no handler is running
DispatchInline ==
  /\ connPc = "range"
  /\ chans # <<>>
  /\ \A d \in 1..Len(channels) : channels[d].pc \in {"queued", "done"}
  /\ chans' = Tail(chans)
  /\ LET c == Head(chans)
     IN  CASE channels[c].ChannelType = "session" ->
                /\ Set(c, [channels[c] EXCEPT !.handler = "handleSession", !.pc = "accept"])
                /\ UNCHANGED <<connPc, nConn>>
           [] channels[c].ChannelType = "direct-tcpip" ->
                /\ Set(c, [channels[c] EXCEPT !.handler = "handleDial", !.pc = "decode"])
                /\ UNCHANGED <<connPc, nConn>>
           [] OTHER -> rejectUnknown(c)
  /\ UNCHANGED <<runVars, decoderVars, pkeys, authVars, allowedDestinations>>

\* one iteration of "for newChannel := range chans"
Dispatch ==
  /\ connPc = "range"
  /\ chans # <<>>
  /\ chans' = Tail(chans)
  /\ LET c == Head(chans)
     IN  CASE channels[c].ChannelType = "session" ->
                /\ Set(c, [channels[c] EXCEPT !.handler = "handleSession", !.pc = "accept"])
                /\ UNCHANGED <<connPc, nConn>>
           [] channels[c].ChannelType = "direct-tcpip" ->
                /\ Set(c, [channels[c] EXCEPT !.handler = "handleDial", !.pc = "decode"])
                /\ UNCHANGED <<connPc, nConn>>
           [] OTHER -> rejectUnknown(c)
  /\ UNCHANGED <<runVars, decoderVars, pkeys, authVars, allowedDestinations>>

\* chans is closed and drained: return nil, the deferred nConn.Close()
ConnReturn ==
  /\ connPc = "range"
  /\ chans = <<>>
  /\ nConn # "open"
  /\ connPc' = "done"
  /\ nConn' = "closed"
  /\ UNCHANGED <<runVars, decoderVars, pkeys, authVars, allowedDestinations, chans, channels>>

---------------------------------------------------------------------------
\* handleDial

\* decoding failed: return err
decodeFailed(c) ==
  Set(c, [channels[c] EXCEPT !.pc = "done"])

\* a rejection that does not return, and falls through to the dial
prohibitedFallsThrough(c, addr) ==
  Set(c, [Reject(channels[c], "Prohibited") EXCEPT
            !.addr = <<addr>>, !.dialed = Append(@, addr), !.pc = "dial"])

\* the address is not in a non-empty allow-list: return newChannel.Reject(ssh.Prohibited, ...)
prohibited(c, addr) ==
  Set(c, [Reject(channels[c], "Prohibited") EXCEPT !.addr = <<addr>>, !.pc = "done"])

\* a handler that accepts the open first and dials afterwards
dialAfterAccept(c, addr) ==
  Set(c, [channels[c] EXCEPT !.addr = <<addr>>, !.dialed = Append(@, addr),
                             !.decision = Append(@, "Accepted"), !.channel = "open",
                             !.pc = "dial"])

\* dial: net.DialTimeout("tcp", addr, 10*time.Second) is called
dial(c, addr) ==
  Set(c, [channels[c] EXCEPT !.addr = <<addr>>, !.dialed = Append(@, addr), !.pc = "dial"])

\* from the entry of handleDial to the call of net.DialTimeout
DialBegin(c) ==
  /\ channels[c].handler = "handleDial"
  /\ channels[c].pc = "decode"
  /\ LET r == decodeHostPortPayload(channels[c].ExtraData)
         addr == JoinHostPort(r.host, Itoa(r.port))
     IN  IF r.err THEN decodeFailed(c)
         ELSE IF reachesDial(allowedDestinations, addr) THEN dial(c, addr)
         ELSE prohibited(c, addr)
  /\ UNCHANGED <<runVars, decoderVars, pkeys, authVars, allowedDestinations, nConn, connPc, chans>>

\* a failed dial that is tried a second time before the open is rejected
dialFailedRetries(c) ==
  IF Len(channels[c].dialed) < 2
  THEN Set(c, [channels[c] EXCEPT !.dialed = Append(@, channels[c].addr[1])])
  ELSE Set(c, [Reject(channels[c], "ConnectionFailed") EXCEPT !.pc = "done"])

\* net.DialTimeout returned an error: return newChannel.Reject(ssh.ConnectionFailed, ...)
dialFailed(c) ==
  Set(c, [Reject(channels[c], "ConnectionFailed") EXCEPT !.pc = "done"])

\* net.DialTimeout returns: a connection, or an error (refused, unreachable, timeout)
DialTimeout(c, connected) ==
  /\ channels[c].handler = "handleDial"
  /\ channels[c].pc = "dial"
  /\ IF connected
     THEN Set(c, [channels[c] EXCEPT !.rconn = "open", !.peer = "live", !.pc = "accept"])
     ELSE dialFailed(c)
  /\ UNCHANGED <<runVars, decoderVars, pkeys, authVars, allowedDestinations, nConn, connPc, chans>>

\* an Accept error returned before rconn.Close() was deferred
acceptFailedLeaks(c) ==
  Set(c, [channels[c] EXCEPT !.decision = Append(@, "AcceptFailed"), !.pc = "done"])

\* newChannel.Accept() returned an error: return err, and the deferred
\* rconn.Close() runs
acceptFailed(c) ==
  Set(c, [channels[c] EXCEPT !.decision = Append(@, "AcceptFailed"),
                             !.rconn = "closed", !.pc = "done"])

\* newChannel.Accept(), then the two go statements; Accept fails when the
\* connection is gone
DialAccept(c) ==
  /\ channels[c].handler = "handleDial"
  /\ channels[c].pc = "accept"
  /\ IF nConn = "open"
     THEN Set(c, [channels[c] EXCEPT !.decision = Append(@, "Accepted"),
                                     !.channel = "open",
                                     !.reqTask = "running",
                                     !.copyTask = "running",
                                     !.pc = "copy"])
     ELSE acceptFailed(c)
  /\ UNCHANGED <<runVars, decoderVars, pkeys, authVars, allowedDestinations, nConn, connPc, chans>>

\* handleDial returns: the deferred channel.Close(), then the deferred rconn.Close()
returnClosing(c) ==
  Set(c, [channels[c] EXCEPT !.channel = "closed", !.rconn = "closed", !.pc = "done"])

\* io.Copy(rconn, channel) in handleDial: the client sent bytes, channel.Read
\* returned them and rconn.Write is called. Once the destination is gone the
\* write fails (a broken socket) or still succeeds (a half-closed one).
CopyToDest(c) ==
  /\ channels[c].handler = "handleDial"
  /\ channels[c].pc = "copy"
  /\ nConn = "open"
  /\ ~channels[c].clientClosed
  /\ \/ UNCHANGED channels
     \/ /\ channels[c].peer = "gone"
        /\ returnClosing(c)
  /\ UNCHANGED <<runVars, decoderVars, pkeys, authVars, allowedDestinations, nConn, connPc, chans>>

\* a channel.Read that only the client's close ends, not the loss of the connection
CopyReturnClientOnly(c) ==
  /\ channels[c].handler = "handleDial"
  /\ channels[c].pc = "copy"
  /\ channels[c].clientClosed
  /\ returnClosing(c)
  /\ UNCHANGED <<runVars, decoderVars, pkeys, authVars, allowedDestinations, nConn, connPc, chans>>

\* io.Copy(rconn, channel) in handleDial: channel.Read returns EOF (the client
\* closed the channel, or the connection is gone); return err
CopyReturn(c) ==
  /\ channels[c].handler = "handleDial"
  /\ channels[c].pc = "copy"
  /\ channels[c].clientClosed \/ nConn # "open"
  /\ returnClosing(c)
  /\ UNCHANGED <<runVars, decoderVars, pkeys, authVars, allowedDestinations, nConn, connPc, chans>>

\* go io.Copy(channel, rconn): the destination sent bytes, rconn.Read returned
\* them and channel.Write is called, which fails on a channel closed by
\* either side and on a lost connection
CopyToClient(c) ==
  /\ channels[c].copyTask = "running"
  /\ channels[c].rconn = "open"
  /\ channels[c].peer = "live"
  /\ IF channels[c].channel = "open" /\ ~channels[c].clientClosed /\ nConn = "open"
     THEN UNCHANGED channels
     ELSE Set(c, [channels[c] EXCEPT !.copyTask = "done"])
  /\ UNCHANGED <<runVars, decoderVars, pkeys, authVars, allowedDestinations, nConn, connPc, chans>>

\* the copy from the destination as the loop handleDial waits for: its end
\* is the return of the handler
CopyTaskEndReturns(c) ==
  /\ channels[c].copyTask = "running"
  /\ channels[c].peer = "gone" \/ channels[c].rconn = "closed"
  /\ Set(c, [channels[c] EXCEPT !.copyTask = "done", !.channel = "closed",
                                !.rconn = "closed", !.pc = "done"])
  /\ UNCHANGED <<runVars, decoderVars, pkeys, authVars, allowedDestinations, nConn, connPc, chans>>

\* a copy from the destination that a Close of rconn on this side does not end
CopyTaskEndOnPeerOnly(c) ==
  /\ channels[c].copyTask = "running"
  /\ channels[c].peer = "gone"
  /\ Set(c, [channels[c] EXCEPT !.copyTask = "done"])
  /\ UNCHANGED <<runVars, decoderVars, pkeys, authVars, allowedDestinations, nConn, connPc, chans>>

\* go io.Copy(channel, rconn): rconn.Read returns EOF or an error (the
\* destination is gone, or rconn was closed here)
CopyTaskEnd(c) ==
  /\ channels[c].copyTask = "running"
  /\ channels[c].peer = "gone" \/ channels[c].rconn = "closed"
  /\ Set(c, [channels[c] EXCEPT !.copyTask = "done"])
  /\ UNCHANGED <<runVars, decoderVars, pkeys, authVars, allowedDestinations, nConn, connPc, chans>>

---------------------------------------------------------------------------
\* handleSession

\* newChannel.Accept(), then the go statement; on an error, return err
SessionAccept(c) ==
  /\ channels[c].handler = "handleSession"
  /\ channels[c].pc = "accept"
  /\ IF nConn = "open"
     THEN Set(c, [channels[c] EXCEPT !.decision = Append(@, "Accepted"),
                                     !.channel = "open",
                                     !.reqTask = "running",
                                     !.pc = "copy"])
     ELSE Set(c, [channels[c] EXCEPT !.decision = Append(@, "AcceptFailed"), !.pc = "done"])
  /\ UNCHANGED <<runVars, decoderVars, pkeys, authVars, allowedDestinations, nConn, connPc, chans>>

\* io.Copy(ioutil.Discard, channel): the client sent bytes, channel.Read
\* returned them and they are written to ioutil.Discard
SessionDiscard(c) ==
  /\ channels[c].handler = "handleSession"
  /\ channels[c].pc = "copy"
  /\ nConn = "open"
  /\ ~channels[c].clientClosed
  /\ UNCHANGED vars

\* a return of handleSession without the deferred channel.Close()
SessionReturnLeaks(c) ==
  /\ channels[c].handler = "handleSession"
  /\ channels[c].pc = "copy"
  /\ channels[c].clientClosed \/ nConn # "open"
  /\ Set(c, [channels[c] EXCEPT !.pc = "done"])
  /\ UNCHANGED <<runVars, decoderVars, pkeys, authVars, allowedDestinations, nConn, connPc, chans>>

\* io.Copy(ioutil.Discard, channel): channel.Read returns EOF; return err, and
\* the deferred channel.Close() runs
SessionReturn(c) ==
  /\ channels[c].handler = "handleSession"
  /\ channels[c].pc = "copy"
  /\ channels[c].clientClosed \/ nConn # "open"
  /\ Set(c, [channels[c] EXCEPT !.channel = "closed", !.pc = "done"])
  /\ UNCHANGED <<runVars, decoderVars, pkeys, authVars, allowedDestinations, nConn, connPc, chans>>

---------------------------------------------------------------------------
\* the goroutines over a channel's requests

\* a reply of success to every request
replyAlways(type) == TRUE

\* the value handleSession passes to req.Reply
shellOnly(type) == type = "shell"

\* one request is taken: in handleSession req.Reply(req.Type == "shell", nil),
\* in handleDial ssh.DiscardRequests, which replies false
HandleRequest(c) ==
  /\ channels[c].reqTask = "running"
  /\ channels[c].requests # <<>>
  /\ LET type == Head(channels[c].requests)
         ok == IF channels[c].handler = "handleSession" THEN shellOnly(type) ELSE FALSE
     IN  Set(c, [channels[c] EXCEPT !.requests = Tail(@),
                                    !.replies = Append(@, [type |-> type, ok |-> ok])])
  /\ UNCHANGED <<runVars, decoderVars, pkeys, authVars, allowedDestinations, nConn, connPc, chans>>

\* the requests of the channel are closed (the client closed the channel, or
\* the connection is gone) and drained: the goroutine ends
RequestsEnd(c) ==
  /\ channels[c].reqTask = "running"
  /\ channels[c].requests = <<>>
  /\ channels[c].clientClosed \/ nConn # "open"
  /\ Set(c, [channels[c] EXCEPT !.reqTask = "done"])
  /\ UNCHANGED <<runVars, decoderVars, pkeys, authVars, allowedDestinations, nConn, connPc, chans>>

---------------------------------------------------------------------------
\* the client sends bytes on an accepted channel, and the handler's copy reads them
ClientData(c) == CopyToDest(c) \/ SessionDiscard(c)

\* what clients, destinations and the network do, channel requests apart
Environment ==
  \/ ConnDrop
  \/ \E c \in Ids : ClientClose(c)
  \/ \E c \in Ids : DestGone(c)
  \/ \E c \in Ids : ClientData(c)
  \/ \E c \in Ids : CopyToClient(c)
  \/ \E c \in Ids, connected \in BOOLEAN : DialTimeout(c, connected)
  \/ \E key \in Keys : NewServerConn(key)

\* the steps a handler and its goroutines take by themselves
Handler(c) ==
  \/ DialBegin(c)
  \/ DialAccept(c)
  \/ CopyReturn(c)
  \/ CopyTaskEnd(c)
  \/ SessionAccept(c)
  \/ SessionReturn(c)
  \/ RequestsEnd(c)

\* a connection whose channels carry data only
Next ==
  \/ Environment
  \/ \E open \in Opens : ClientOpen(open, MaxChannels)
  \/ Dispatch
  \/ ConnReturn
  \/ \E c \in Ids : Handler(c)

Spec == Init /\ [][Next]_vars

\* a connection whose channels carry data and channel requests
NextRequests ==
  \/ Environment
  \/ \E open \in Opens : ClientOpen(open, MaxRequestChannels)
  \/ \E c \in Ids, type \in RequestTypes : ClientRequest(c, type)
  \/ Dispatch
  \/ ConnReturn
  \/ \E c \in Ids : Handler(c)
  \/ \E c \in Ids : HandleRequest(c)

SpecRequests == Init /\ [][NextRequests]_vars

\* the steps of the server that do not wait for a client or a destination
\* (net.DialTimeout returns within its 10 seconds)
ServerStep(c) ==
  /\ c \in Ids
  /\ \/ Handler(c)
     \/ \E connected \in BOOLEAN : DialTimeout(c, connected)

\* every goroutine that can run does run
FairSpec ==
  /\ Spec
  /\ WF_vars(Dispatch)
  /\ WF_vars(ConnReturn)
  /\ \A c \in 1..MaxChannels : WF_vars(ServerStep(c))

\* a connection followed until every goroutine of its channels has ended
NextTasks ==
  \/ Environment
  \/ \E open \in Opens : ClientOpen(open, MaxTaskChannels)
  \/ Dispatch
  \/ ConnReturn
  \/ \E c \in Ids : Handler(c)

SpecTasks == Init /\ [][NextTasks]_vars

\* every goroutine of that connection that can run does run
FairTasks ==
  /\ SpecTasks
  /\ WF_vars(Dispatch)
  /\ WF_vars(ConnReturn)
  /\ \A c \in 1..MaxTaskChannels : WF_vars(ServerStep(c))

(***************************************************************************)
(* Runs of one connection over every allow-list and destination.           *)
(***************************************************************************)
\* allow-lists over three addresses that differ in case or in length
DialAllowLists == SeqsUpTo({a80, A80, a8}, MaxAllowed)

\* direct-tcpip opens to a:80, A:80 and a:8
DialOpens ==
  { [ChannelType |-> "direct-tcpip", ExtraData |-> DirectTcpipPayload(d[1], d[2], <<>>)] :
      d \in { <<<<97>>, 80>>, <<<<65>>, 80>>, <<<<97>>, 8>> } }

InitDial ==
  /\ payload = <<>>
  /\ decoded = <<>>
  /\ pkeys = << <<2, 3>> >>
  /\ presented = <<>>
  /\ authResult = <<>>
  /\ allowedDestinations \in DialAllowLists
  /\ nConn = "open"
  /\ connPc = "handshake"
  /\ chans = <<>>
  /\ channels = <<>>
  /\ Listening

NextDial ==
  \/ Environment
  \/ \E open \in DialOpens : ClientOpen(open, MaxDialChannels)
  \/ Dispatch
  \/ ConnReturn
  \/ \E c \in Ids : Handler(c)

SpecDial == InitDial /\ [][NextDial]_vars

(***************************************************************************)
(* The process: main and run, and handleConn as run sees it.               *)
(***************************************************************************)
\* the authorized-keys files run is started with: one that does not open, one
\* key, a key and a line that holds no key, and one whose read fails
AuthKeysFiles ==
  { File(FALSE, <<>>, FALSE),
    File(TRUE, << <<2, 3>> >>, FALSE),
    File(TRUE, << <<2, 3>>, <<>> >>, FALSE),
    File(TRUE, << <<2, 3>> >>, TRUE) }

\* the host key files: a private key, a file that cannot be read, and one
\* that ssh.ParsePrivateKey refuses
HostKeyFiles == {"key", "unreadable", "not a key"}

\* the allow-list files: one that does not open, one with a comment, an empty
\* line and a:80, and one whose read fails
DestinationsFiles ==
  { File(FALSE, <<>>, FALSE),
    File(TRUE, << <<35, 97>>, <<>>, a80 >>, FALSE),
    File(TRUE, << a80 >>, TRUE) }

\* the runArgs of the process; Destinations is <<>> for the empty string
RunArgs ==
  { [AuthKeysFile |-> f, HostKeyFile |-> h, Destinations |-> d] :
      f \in AuthKeysFiles, h \in HostKeyFiles,
      d \in {<<>>} \cup { <<x>> : x \in DestinationsFiles } }

\* authChecker up to the construction of the callback: the error, and pkeys
authChecker(f) ==
  IF ~f.opens THEN [err |-> TRUE, pkeys |-> <<>>]
  ELSE IF \E i \in 1..Len(f.lines) : f.lines[i] = <<>> THEN [err |-> TRUE, pkeys |-> <<>>]
  ELSE IF f.scanErr THEN [err |-> TRUE, pkeys |-> <<>>]
  ELSE [err |-> FALSE, pkeys |-> f.lines]

\* loadHostKey: whether it returns an error
loadHostKey(h) == h # "key"

\* the loop of loadDestinations: empty lines and lines that start with '#' are skipped
RECURSIVE scanDestinations(_)
scanDestinations(lines) ==
  IF lines = <<>> THEN <<>>
  ELSE IF Len(Head(lines)) = 0 \/ Head(lines)[1] = 35
       THEN scanDestinations(Tail(lines))
       ELSE <<Head(lines)>> \o scanDestinations(Tail(lines))

\* a loader that goes on when the file does not open
loadDestinationsUnopened(f) ==
  [err |-> f.scanErr, out |-> scanDestinations(f.lines)]

loadDestinations(f) ==
  IF ~f.opens THEN [err |-> TRUE, out |-> <<>>]
  ELSE [err |-> f.scanErr, out |-> scanDestinations(f.lines)]

InitRun ==
  /\ args \in RunArgs
  /\ runPc = "authChecker"
  /\ runErr = "nil"
  /\ ln = "nil"
  /\ conns = <<>>
  /\ pkeys = <<>>
  /\ payload = <<>>
  /\ decoded = <<>>
  /\ presented = <<>>
  /\ authResult = <<>>
  /\ ConnIdle

\* run returns err, the deferred ln.Close() runs if it was reached, and main
\* ends the process with log.Fatal(err)
fatal(call) ==
  /\ runErr' = call
  /\ runPc' = "exited"
  /\ ln' = IF ln = "open" THEN "closed" ELSE ln

\* auth, err := authChecker(args.AuthKeysFile)
RunAuthChecker ==
  /\ runPc = "authChecker"
  /\ LET r == authChecker(args.AuthKeysFile)
     IN  IF r.err
         THEN fatal("authChecker") /\ UNCHANGED pkeys
         ELSE /\ pkeys' = r.pkeys
              /\ runPc' = "loadHostKey"
              /\ UNCHANGED <<runErr, ln>>
  /\ UNCHANGED <<args, conns, decoderVars, authVars, connVars>>

\* hostKey, err := loadHostKey(args.HostKeyFile)
RunLoadHostKey ==
  /\ runPc = "loadHostKey"
  /\ IF loadHostKey(args.HostKeyFile)
     THEN fatal("loadHostKey")
     ELSE runPc' = "loadDestinations" /\ UNCHANGED <<runErr, ln>>
  /\ UNCHANGED <<args, conns, decoderVars, pkeys, authVars, connVars>>

\* if args.Destinations != "" { ss, err := loadDestinations(...); destinations = ss }
RunLoadDestinations ==
  /\ runPc = "loadDestinations"
  /\ IF args.Destinations = <<>>
     THEN runPc' = "listen" /\ UNCHANGED <<runErr, ln, allowedDestinations>>
     ELSE LET r == loadDestinations(args.Destinations[1])
          IN  IF r.err
              THEN fatal("loadDestinations") /\ UNCHANGED allowedDestinations
              ELSE /\ allowedDestinations' = r.out
                   /\ runPc' = "listen"
                   /\ UNCHANGED <<runErr, ln>>
  /\ UNCHANGED <<args, conns, decoderVars, pkeys, authVars, nConn, connPc, chans, channels>>

\* ln, err := net.Listen("tcp", args.Addr)
RunListen(ok) ==
  /\ runPc = "listen"
  /\ IF ok
     THEN ln' = "open" /\ runPc' = "accept" /\ UNCHANGED runErr
     ELSE fatal("listen")
  /\ UNCHANGED <<args, conns, decoderVars, pkeys, authVars, connVars>>

\* conn, err := ln.Accept(), and go handleConn(conn, config, destinations...)
RunAccept(ok) ==
  /\ runPc = "accept"
  /\ IF ok
     THEN /\ Len(conns) < MaxConns
          /\ conns' = Append(conns, [nConn |-> "open", pc |-> "handshake", err |-> "nil"])
          /\ UNCHANGED <<runPc, runErr, ln>>
     ELSE fatal("accept") /\ UNCHANGED conns
  /\ UNCHANGED <<args, decoderVars, pkeys, authVars, connVars>>

\* a handleConn that ends the process when its handshake fails
handshakeFailedFatal(i) ==
  /\ conns' = [conns EXCEPT ![i] = [nConn |-> "closed", pc |-> "done", err |-> "handshake"]]
  /\ fatal("handshake")

\* ssh.NewServerConn returned an error: return err, the deferred nConn.Close()
handshakeFailed(i) ==
  /\ conns' = [conns EXCEPT ![i] = [nConn |-> "closed", pc |-> "done", err |-> "handshake"]]
  /\ UNCHANGED <<runPc, runErr, ln>>

\* handleConn of connection i: ssh.NewServerConn, with the key the client presents
ConnHandshake(i, key) ==
  /\ runPc # "exited"
  /\ conns[i].pc = "handshake"
  /\ IF PublicKeyCallback(pkeys, key)
     THEN /\ conns' = [conns EXCEPT ![i].pc = "range"]
          /\ UNCHANGED <<runPc, runErr, ln>>
     ELSE handshakeFailed(i)
  /\ UNCHANGED <<args, decoderVars, pkeys, authVars, connVars>>

\* handleConn of connection i: the connection ended, the loop over chans is
\* over: return nil, the deferred nConn.Close()
ConnEnd(i) ==
  /\ runPc # "exited"
  /\ conns[i].pc = "range"
  /\ conns' = [conns EXCEPT ![i] = [nConn |-> "closed", pc |-> "done", err |-> "nil"]]
  /\ UNCHANGED <<args, runPc, runErr, ln, decoderVars, pkeys, authVars, connVars>>

NextRun ==
  \/ RunAuthChecker
  \/ RunLoadHostKey
  \/ RunLoadDestinations
  \/ \E ok \in BOOLEAN : RunListen(ok)
  \/ \E ok \in BOOLEAN : RunAccept(ok)
  \/ \E i \in 1..Len(conns), key \in Keys : ConnHandshake(i, key)
  \/ \E i \in 1..Len(conns) : ConnEnd(i)

SpecRun == InitRun /\ [][NextRun]_vars

(***************************************************************************)
(* Properties of the decoder and of the key check.                         *)
(***************************************************************************)
\* the value of the four-byte big-endian length prefix of b
LengthPrefix(b) == (b[1] * 16777216) + (b[2] * 65536) + (b[3] * 256) + b[4]

\* C8: a well-formed payload of host h (at most 255 bytes) and port p in
\* 0..65535 decodes to exactly (h, p), whatever originator bytes follow; a
\* payload shorter than 4 + L + 4 bytes, L <= 255 its declared host length
\* (or shorter than the length prefix itself), is an error.
C8_DecodeRoundTrip ==
  decoded # <<>> =>
    /\ \A h \in SeqsUpTo(HostBytes, MaxHostLen), p \in Ports,
          tail \in SeqsUpTo(TailBytes, MaxTailLen) :
         (Len(h) <= 255 /\ p \in 0..65535 /\ payload = DirectTcpipPayload(h, p, tail))
           => decoded[1] = [err |-> FALSE, host |-> h, port |-> p]
    /\ Len(payload) < 4 => decoded[1].err
    /\ (/\ Len(payload) >= 4
        /\ LengthPrefix(payload) <= 255
        /\ Len(payload) < 4 + LengthPrefix(payload) + 4) => decoded[1].err

\* a payload with a host, a port above 255 and originator bytes was decoded
C8_Witness ==
  /\ decoded # <<>>
  /\ payload = DirectTcpipPayload(<<97, 255>>, 443, <<7>>)
  /\ decoded[1] = [err |-> FALSE, host |-> <<97, 255>>, port |-> 443]

\* C3: the callback accepts a presented key if and only if its marshaled
\* bytes equal those of some loaded key.
C3_AuthIffLoaded ==
  authResult # <<>> =>
    (authResult[1] <=> \E i \in 1..Len(pkeys) : pkeys[i] = presented[1])

\* the second of two different loaded keys was presented and accepted
C3_Witness ==
  /\ authResult = <<TRUE>>
  /\ Len(pkeys) = 2
  /\ pkeys[1] # pkeys[2]
  /\ presented[1] = pkeys[2]

(***************************************************************************)
(* Properties of handleConn, handleDial and handleSession.                 *)
(***************************************************************************)
Forwarding(c) == channels[c].handler = "handleDial"

\* the address handleDial formed for c is absent from a non-empty allow-list
Absent(c) ==
  /\ channels[c].addr # <<>>
  /\ Len(allowedDestinations) > 0
  /\ \A i \in 1..Len(allowedDestinations) : allowedDestinations[i] # channels[c].addr[1]

\* C1: once handleDial has formed the address d of a channel, it goes on to
\* dial d if the allow-list is empty, and with a non-empty allow-list if and
\* only if d equals one of its entries byte for byte.
C1_PermittedIffListed ==
  \A c \in Ids :
    channels[c].addr # <<>> =>
      /\ Len(allowedDestinations) = 0 => channels[c].dialed # <<>>
      /\ Len(allowedDestinations) > 0 =>
           (channels[c].dialed # <<>> <=>
              \E i \in 1..Len(allowedDestinations) :
                allowedDestinations[i] = channels[c].addr[1])

\* a:80 was dialed as the second entry of a list whose first differs in case only
C1_Witness ==
  /\ allowedDestinations = <<A80, a80>>
  /\ \E c \in Ids : channels[c].addr = <<a80>> /\ channels[c].dialed = <<a80>>

\* C2: a direct-tcpip open whose address is absent from a non-empty allow-list
\* is rejected as prohibited, and in no state has it a dial or a socket.
C2_ProhibitedNeverDials ==
  \A c \in Ids :
    Absent(c) =>
      /\ channels[c].decision = <<"Prohibited">>
      /\ channels[c].dialed = <<>>
      /\ channels[c].rconn = "nil"
      /\ channels[c].channel = "nil"
      /\ channels[c].pc = "done"

\* a:80 was rejected by a list that holds a:8 and A:80, while a sibling was dispatched
C2_Witness ==
  /\ allowedDestinations = <<a8, A80>>
  /\ Len(channels) = 2
  /\ channels[1].addr = <<a80>>
  /\ channels[1].decision = <<"Prohibited">>
  /\ channels[2].pc # "queued"

\* C4: when decoding the payload of a direct-tcpip open fails, the open is
\* answered with a rejection and no socket is opened.
C4_MalformedRejected ==
  \A c \in Ids :
    (/\ Forwarding(c)
     /\ channels[c].pc # "decode"
     /\ decodeHostPortPayload(channels[c].ExtraData).err) =>
      /\ Len(channels[c].decision) = 1
      /\ channels[c].decision[1] \notin {"Accepted", "AcceptFailed"}
      /\ channels[c].rconn = "nil"

\* the dial of c returned an error
DialFailed(c) ==
  /\ Forwarding(c)
  /\ channels[c].dialed # <<>>
  /\ channels[c].rconn = "nil"
  /\ channels[c].pc # "dial"

\* C5: a channel has at most one dial, and one whose dial failed is rejected
\* with the connection-failed reason and never accepted.
C5_DialFailureRejectsOnce ==
  \A c \in Ids :
    /\ Len(channels[c].dialed) <= 1
    /\ DialFailed(c) =>
         /\ channels[c].decision = <<"ConnectionFailed">>
         /\ channels[c].channel = "nil"
         /\ channels[c].pc = "done"

\* the dial of a permitted address failed
C5_Witness ==
  \E c \in Ids :
    /\ DialFailed(c)
    /\ channels[c].dialed = <<a80>>
    /\ channels[c].decision = <<"ConnectionFailed">>

\* C6: every reply on a session channel is success if and only if the type
\* of its request is "shell".
C6_ShellOnlySucceeds ==
  \A c \in Ids :
    channels[c].handler = "handleSession" =>
      \A i \in 1..Len(channels[c].replies) :
        channels[c].replies[i].ok <=> channels[c].replies[i].type = "shell"

\* "pty-req" then "shell" on one session channel: failure, then success
C6_Witness ==
  \E c \in Ids :
    /\ channels[c].handler = "handleSession"
    /\ channels[c].replies = << [type |-> "pty-req", ok |-> FALSE],
                                [type |-> "shell", ok |-> TRUE] >>

\* C7: a channel-open event taken by handleConn went to handleSession if its
\* type is "session", to handleDial if "direct-tcpip", and was otherwise
\* rejected as of unknown type; and handleConn does not return while an
\* event waits.
C7_DispatchByType ==
  /\ \A c \in Ids :
       channels[c].pc # "queued" =>
         CASE channels[c].ChannelType = "session" -> channels[c].handler = "handleSession"
           [] channels[c].ChannelType = "direct-tcpip" -> channels[c].handler = "handleDial"
           [] OTHER -> /\ channels[c].handler = "none"
                       /\ channels[c].decision = <<"UnknownChannelType">>
  /\ \A c \in Ids : channels[c].pc = "queued" => connPc = "range"
  /\ connPc = "done" => chans = <<>>

\* after an open of unknown type was rejected, a later open was handed to a handler
C7_Witness ==
  /\ Len(channels) = 2
  /\ channels[1].decision = <<"UnknownChannelType">>
  /\ channels[2].handler # "none"

\* C9: when handleDial has returned after a successful dial, the socket is
\* closed, and so is the channel if it was accepted.
C9_ReturnCloses ==
  \A c \in Ids :
    (Forwarding(c) /\ channels[c].pc = "done" /\ channels[c].rconn # "nil") =>
      /\ channels[c].rconn = "closed"
      /\ channels[c].channel # "nil" => channels[c].channel = "closed"

\* handleDial returned on a failed write to a destination that went first
C9_Witness ==
  \E c \in Ids :
    /\ channels[c].decision = <<"Accepted">>
    /\ channels[c].pc = "done"
    /\ channels[c].peer = "gone"
    /\ ~channels[c].clientClosed
    /\ nConn = "open"
    /\ channels[c].rconn = "closed"
    /\ channels[c].channel = "closed"

\* c is relaying and one of its legs has ended
LegEnded(c) ==
  /\ c \in Ids
  /\ channels[c].decision = <<"Accepted">>
  /\ Forwarding(c)
  /\ channels[c].peer = "gone" \/ channels[c].clientClosed

BothClosed(c) ==
  /\ c \in Ids
  /\ channels[c].channel = "closed"
  /\ channels[c].rconn = "closed"

\* C10: once either leg of a relaying channel has ended, the channel and its
\* socket are eventually closed.
C10_LegEndClosesBoth ==
  \A c \in 1..MaxChannels : LegEnded(c) ~> BothClosed(c)

\* c holds its handler back, or was turned away: it waits in its dial, its
\* dial failed, its open was rejected, or it is relaying
Stuck(c) ==
  \/ channels[c].pc \in {"dial", "copy"}
  \/ /\ channels[c].decision # <<>>
     /\ channels[c].decision[1] \in {"UnknownChannelType", "Prohibited", "ConnectionFailed"}

\* the next step of the handler of d can be taken
CanProceed(d) ==
  /\ channels[d].pc = "queued" => ENABLED Dispatch
  /\ (Forwarding(d) /\ channels[d].pc = "decode") => ENABLED DialBegin(d)
  /\ (Forwarding(d) /\ channels[d].pc = "dial") => ENABLED DialTimeout(d, TRUE)
  /\ (Forwarding(d) /\ channels[d].pc = "accept") => ENABLED DialAccept(d)
  /\ (channels[d].handler = "handleSession" /\ channels[d].pc = "accept") =>
       ENABLED SessionAccept(d)
  /\ (/\ Forwarding(d)
      /\ channels[d].pc = "copy"
      /\ nConn = "open"
      /\ ~channels[d].clientClosed) =>
       /\ ENABLED CopyToDest(d)
       /\ (channels[d].peer = "live" /\ channels[d].copyTask = "running") =>
            ENABLED CopyToClient(d)

\* a step that changes channel c changes no other channel, and neither closes
\* the connection nor ends handleConn
OwnChannelOnly ==
  \A c \in Ids :
    channels'[c] # channels[c] =>
      /\ nConn' = nConn
      /\ connPc' = connPc
      /\ \A d \in Ids \ {c} : channels'[d] = channels[d]

\* C11: while a channel waits in its dial, has failed its dial, was rejected
\* or is relaying, every other channel of the connection can take its next
\* step (be dispatched, dial, be accepted, relay), and no step of a channel
\* changes a sibling, closes the connection or ends handleConn.
C11_SiblingsIndependent ==
  /\ [](\A c \in Ids : Stuck(c) => \A d \in Ids \ {c} : CanProceed(d))
  /\ [][OwnChannelOnly]_vars

\* channel 2 was accepted and relays while channel 1 still waits in its dial
C11_Witness ==
  /\ Len(channels) = 2
  /\ nConn = "open"
  /\ channels[1].pc = "dial"
  /\ Forwarding(2)
  /\ channels[2].decision = <<"Accepted">>
  /\ channels[2].pc = "copy"

\* no function or goroutine of any channel is running and no socket is open
Quiet ==
  \A c \in Ids :
    /\ channels[c].pc = "done"
    /\ channels[c].copyTask # "running"
    /\ channels[c].reqTask # "running"
    /\ channels[c].rconn # "open"

\* C12: once the raw connection has ended, every handler, copy task and
\* request task of its channels eventually ends and every socket dialed for
\* it is eventually closed.
C12_ConnCloseCancels ==
  (nConn # "open") ~> Quiet

\* the connection ended under a relay whose client and destination were both
\* still there, and everything of that channel has ended
C12_Witness ==
  /\ nConn # "open"
  /\ Quiet
  /\ \E c \in Ids :
       /\ Forwarding(c)
       /\ channels[c].decision = <<"Accepted">>
       /\ ~channels[c].clientClosed
       /\ channels[c].peer = "live"
       /\ channels[c].rconn = "closed"
       /\ channels[c].copyTask = "done"
       /\ channels[c].reqTask = "done"

CopyToDestDecides ==
  \A c \in Ids :
    (Forwarding(c) /\ channels[c].pc = "copy") =>
      /\ channels'[c].copyTask # channels[c].copyTask => channels'[c].pc = "copy"
      /\ channels'[c].pc = "done" =>
           /\ \/ channels[c].clientClosed
              \/ nConn # "open"
              \/ channels[c].peer = "gone"
           /\ channels'[c].channel = "closed"
           /\ channels'[c].rconn = "closed"

Session(c) == channels[c].handler = "handleSession"

\* a session open is accepted unless the connection is gone; a session has no
\* socket and no task that writes to the client; one that returned is closed
SessionAnswered ==
  \A c \in Ids :
    (Session(c) /\ channels[c].pc # "accept") =>
      /\ channels[c].decision \in {<<"Accepted">>, <<"AcceptFailed">>}
      /\ channels[c].decision = <<"AcceptFailed">> => nConn # "open"
      /\ channels[c].copyTask = "none"
      /\ channels[c].rconn = "nil"
      /\ channels[c].dialed = <<>>
      /\ (channels[c].pc = "done" /\ channels[c].channel # "nil") =>
           channels[c].channel = "closed"

\* the read of an accepted session has ended: the client closed the channel,
\* or the connection is gone
SessionReadEnded(c) ==
  /\ c \in Ids
  /\ Session(c)
  /\ channels[c].channel = "open"
  /\ channels[c].clientClosed \/ nConn # "open"

\* C16: a session open is accepted whenever the connection is there, a
\* session has no socket and no copy to the client, and once the client has
\* closed the channel or the read has failed handleSession returns and the
\* channel is closed.
C16_SessionLifecycle ==
  /\ []SessionAnswered
  /\ \A c \in 1..MaxTaskChannels :
       SessionReadEnded(c) ~>
         (c \in Ids /\ channels[c].pc = "done" /\ channels[c].channel = "closed")

\* handleSession returned after the client closed an accepted session
C16_Witness ==
  \E c \in Ids :
    /\ Session(c)
    /\ channels[c].decision = <<"Accepted">>
    /\ channels[c].clientClosed
    /\ nConn = "open"
    /\ channels[c].pc = "done"
    /\ channels[c].channel = "closed"

\* C17: decoding fails for every payload shorter than 4 bytes, and for every
\* payload shorter than 4 + L + 4 bytes, L the value of its four-byte
\* big-endian length prefix, also when L is above 255.
C17_PrefixValidated ==
  decoded # <<>> =>
    ((Len(payload) < 4 \/ Len(payload) < 4 + LengthPrefix(payload) + 4)
       => decoded[1].err)

\* C18: no channel-open event has more than one answer (Accept or Reject).
C18_OneAnswer ==
  \A c \in Ids :
    /\ Len(channels[c].decision) <= 1
    /\ channels[c].channel # "nil" => channels[c].decision = <<"Accepted">>

\* a rejected open and an accepted one, both handlers returned
C18_Witness ==
  /\ Len(channels) = 2
  /\ channels[1].decision = <<"ConnectionFailed">>
  /\ channels[1].pc = "done"
  /\ channels[2].decision = <<"Accepted">>
  /\ channels[2].pc = "done"

\* addr passes the allow-list
Authorized(addr) ==
  \/ Len(allowedDestinations) = 0
  \/ \E i \in 1..Len(allowedDestinations) : allowedDestinations[i] = addr

\* Accept was called on the open of c
AcceptCalled(c) ==
  \/ channels[c].channel # "nil"
  \/ \E i \in 1..Len(channels[c].decision) :
       channels[c].decision[i] \in {"Accepted", "AcceptFailed"}

\* C19: a direct-tcpip open on which Accept was called has a socket that was
\* dialed, with success and before that call, to the address formed from its
\* payload, and that address passes the allow-list.
C19_AcceptedAfterDial ==
  /\ [](\A c \in Ids :
          (Forwarding(c) /\ AcceptCalled(c)) =>
            /\ channels[c].rconn # "nil"
            /\ channels[c].dialed = channels[c].addr
            /\ Len(channels[c].dialed) = 1
            /\ Authorized(channels[c].dialed[1]))
  /\ [][\A c \in Ids :
          (Forwarding(c) /\ ~AcceptCalled(c) /\ AcceptCalled(c)') =>
            channels[c].rconn = "open"]_vars

\* a:80, second in a list whose first entry differs in case, dialed and accepted
C19_Witness ==
  /\ allowedDestinations = <<A80, a80>>
  /\ \E c \in Ids :
       /\ channels[c].decision = <<"Accepted">>
       /\ channels[c].channel = "open"
       /\ channels[c].rconn = "open"
       /\ channels[c].dialed = <<a80>>

\* handleDial returned on c after its Accept
Returned(c) ==
  /\ c \in Ids
  /\ Forwarding(c)
  /\ channels[c].decision = <<"Accepted">>
  /\ channels[c].pc = "done"

CopyTaskEnded(c) == c \in Ids /\ channels[c].copyTask = "done"

RequestTaskEnded(c) == c \in Ids /\ channels[c].reqTask = "done"

\* C20: as the claim has it, after handleDial has returned the copy task and
\* the request task of the channel eventually end.
C20_TasksEndAfterReturn ==
  \A c \in 1..MaxTaskChannels :
    Returned(c) ~> (CopyTaskEnded(c) /\ RequestTaskEnded(c))

\* C20: after handleDial has returned the copy task of the channel
\* eventually ends; its request task eventually ends once the client has
\* closed the channel or the connection is gone.
C20_TasksEndOnClose ==
  \A c \in 1..MaxTaskChannels :
    /\ Returned(c) ~> CopyTaskEnded(c)
    /\ (Returned(c) /\ (channels[c].clientClosed \/ nConn # "open"))
         ~> RequestTaskEnded(c)

\* both tasks have ended after a return while the destination was still there
C20_Witness ==
  \E c \in Ids :
    /\ Returned(c)
    /\ channels[c].peer = "live"
    /\ channels[c].copyTask = "done"
    /\ channels[c].reqTask = "done"

(***************************************************************************)
(* Properties of run.                                                      *)
(***************************************************************************)
\* the handshake of connection i fails in this step
HandshakeFails(i) == conns[i].pc = "handshake" /\ conns'[i].err = "handshake"

\* C13: a failed handshake closes its own connection and changes neither
\* another connection, nor the listener, nor where run is, so that run goes
\* on accepting; an error of Accept ends the loop and the process, closing
\* the listener, and nothing but an error of Accept ends a listening process.
C13_ErrorScope ==
  /\ [][\A i \in 1..Len(conns) :
          HandshakeFails(i) =>
            /\ conns'[i].nConn = "closed"
            /\ UNCHANGED <<runPc, runErr, ln>>
            /\ \A j \in 1..Len(conns) \ {i} : conns'[j] = conns[j]]_vars
  /\ []((runPc = "accept" /\ Len(conns) < MaxConns) => ENABLED RunAccept(TRUE))
  /\ [](ln = "open" => (runPc = "accept" /\ runErr = "nil"))
  /\ [](runErr = "accept" => (runPc = "exited" /\ ln = "closed"))
  /\ []((runPc = "exited" /\ ln # "nil") => runErr = "accept")
  /\ [][runPc = "exited" => UNCHANGED conns]_vars

\* the first connection failed its handshake and is closed; the listener is
\* open, run is in its loop and a second connection is served
C13_Witness ==
  /\ Len(conns) = 2
  /\ conns[1] = [nConn |-> "closed", pc |-> "done", err |-> "handshake"]
  /\ conns[2].pc = "range"
  /\ runPc = "accept"
  /\ ln = "open"

\* what the loaders of run meet in the files it is started with
AuthKeysBad ==
  \/ ~args.AuthKeysFile.opens
  \/ args.AuthKeysFile.scanErr
  \/ \E i \in 1..Len(args.AuthKeysFile.lines) : args.AuthKeysFile.lines[i] = <<>>

HostKeyBad == args.HostKeyFile # "key"

DestinationsBad ==
  /\ args.Destinations # <<>>
  /\ ~args.Destinations[1].opens \/ args.Destinations[1].scanErr

\* C14: when the authorized-keys file, the host key file or a configured
\* allow-list file fails to load, run ends with the error of the first load
\* that fails and no listener is ever bound and no connection accepted; a
\* listener is bound only when the keys and the configured allow-list are
\* loaded.
C14_LoadsBeforeListen ==
  /\ (AuthKeysBad \/ HostKeyBad \/ DestinationsBad) =>
       /\ ln = "nil"
       /\ conns = <<>>
       /\ runPc \in {"authChecker", "loadHostKey", "loadDestinations", "exited"}
  /\ AuthKeysBad =>
       /\ runPc \in {"authChecker", "exited"}
       /\ runPc = "exited" => runErr = "authChecker"
  /\ (~AuthKeysBad /\ HostKeyBad) =>
       /\ runPc \in {"authChecker", "loadHostKey", "exited"}
       /\ runPc = "exited" => runErr = "loadHostKey"
  /\ (~AuthKeysBad /\ ~HostKeyBad /\ DestinationsBad) =>
       (runPc = "exited" => runErr = "loadDestinations")
  /\ ln # "nil" =>
       /\ pkeys = args.AuthKeysFile.lines
       /\ args.Destinations # <<>> =>
            \A i \in 1..Len(allowedDestinations) :
              \E j \in 1..Len(args.Destinations[1].lines) :
                allowedDestinations[i] = args.Destinations[1].lines[j]

\* the keys and the host key were loaded, the allow-list file did not open,
\* and run ended with that error and without a listener
C14_Witness ==
  /\ ~AuthKeysBad
  /\ ~HostKeyBad
  /\ args.Destinations # <<>>
  /\ ~args.Destinations[1].opens
  /\ pkeys # <<>>
  /\ runPc = "exited"
  /\ runErr = "loadDestinations"
  /\ ln = "nil"
  /\ conns = <<>>

====
